---- MODULE Spec2Model ----
(***************************************************************************)
(* netquery-insight-chat: the streaming client.                            *)
(*                                                                         *)
(*   SpecTransport  queryAgent (services/api.js) reading one response body *)
(*                  character by character: chunked reads, line splitting, *)
(*                  the "data: " prefix, JSON.parse, the terminal return.  *)
(*   Spec           the useChat hook (hooks/useChat.js) driven by App.js:  *)
(*                  submits, the event switch, the catch block, React's    *)
(*                  commits of the state the closures read, and Show       *)
(*                  Analysis of components/StreamingMessage.js.            *)
(*   SpecEvents     the event callback and Show Analysis on one stream.    *)
(*   SpecChart      components/DataVisualization.js rendering one          *)
(*                  descriptor over one result set.                        *)
(***************************************************************************)
EXTENDS Integers, Sequences, FiniteSets, TLC

VARIABLES
    \* ---- queryAgent, one call (SpecTransport) ----
    frames,      \* the frames the server wrote into the response body
    wire,        \* the characters of the body not yet returned by reader.read()
    buffer,      \* api.js: let buffer
    delivered,   \* the events onEvent has been invoked with, in order
    tphase,      \* "fetching" | "reading" | "returned" | "eof" | "rejected"
    failure,     \* what made queryAgent reject: "none" | "fetch" | "http" | "read" | "parse"
    midSplit,    \* a read has ended in the middle of a line
    \* ---- useChat and App (Spec) ----
    messages,      \* useChat: const [messages, setMessages] = useState([])
    loading,       \* useChat: const [loading, setLoading] = useState(false), as last set
    loadingSeen,   \* the value of loading in the closures of the last committed render
    sessionIdRef,  \* useChat: sessionIdRef.current
    now,           \* what Date.now() returns
    calls,         \* the sendMessage calls that passed the guard, in order
    analysisPending,  \* the /api/interpret requests in flight, with the id of the message
                      \* whose StreamingMessage has loadingAnalysis set
    \* ---- DataVisualization (SpecChart) ----
    chart,         \* the props of one ConditionalVisualization and what it rendered
    \* ---- App's database selection and MessageFeedback (SpecDatabase, SpecFeedback) ----
    selectedDatabase,  \* App: const [selectedDatabase, setSelectedDatabase] = useState(...)
    feedback       \* the state of one MessageFeedback and the requests it has sent

tvars == <<frames, wire, buffer, delivered, tphase, failure, midSplit>>
cvars == <<messages, loading, loadingSeen, sessionIdRef, now, calls, analysisPending>>

uvars == <<selectedDatabase, feedback>>

vars == <<tvars, cvars, chart, uvars>>

\* No visualization is being rendered
NoChart == [phase |-> "none"]

\* useChat(database = 'sample'), and 'sample' where App reads no stored selection
Database == "sample"

\* No MessageFeedback is mounted
NoFeedback == [mounted |-> FALSE]

\* JavaScript's undefined and null
Undefined == "undefined"
Null == "null"

Min(a, b) == IF a < b THEN a ELSE b

(***************************************************************************)
(* Strings are sequences of one-character strings.                         *)
(***************************************************************************)
NL == "\n"
DataPrefix == <<"d", "a", "t", "a", ":", " ">>

StartsWith(s, p) == Len(s) >= Len(p) /\ SubSeq(s, 1, Len(p)) = p

RECURSIVE Trim(_)
Trim(s) ==
    IF s = <<>> THEN s
    ELSE IF Head(s) = " " THEN Trim(Tail(s))
    ELSE IF s[Len(s)] = " " THEN Trim(SubSeq(s, 1, Len(s) - 1))
    ELSE s

\* String.prototype.split('\n'): always at least one piece, the last one being
\* what follows the last newline
RECURSIVE SplitLines(_, _)
SplitLines(s, cur) ==
    IF s = <<>> THEN <<cur>>
    ELSE IF Head(s) = NL THEN <<cur>> \o SplitLines(Tail(s), <<>>)
    ELSE SplitLines(Tail(s), Append(cur, Head(s)))

(***************************************************************************)
(* The wire format.  A JSON object is written "{" t "}" where the single   *)
(* character t stands for the object's members; t names the event type.    *)
(***************************************************************************)
NonTerminalTypes == {"x", "y"}
TerminalTypes == {"D", "E"}
TypeChars == NonTerminalTypes \cup TerminalTypes

Json(t) == <<"{", t, "}">>

\* JSON.parse: the event, or "SyntaxError"
JsonParse(data) ==
    LET d == Trim(data) IN
    IF Len(d) = 3 /\ d[1] = "{" /\ d[3] = "}" /\ d[2] \in TypeChars
    THEN d[2] ELSE "SyntaxError"

IsTerminal(event) == event \in TerminalTypes

\* What the server can write: an event frame, a frame whose JSON is cut short,
\* a data line with nothing in it, a comment (keep-alive) frame.
FrameKinds == TypeChars \cup {"bad", "blank", "ping"}

Encode(k) ==
    IF k \in TypeChars THEN DataPrefix \o Json(k) \o <<NL, NL>>
    ELSE IF k = "bad" THEN DataPrefix \o <<"{", "x">> \o <<NL, NL>>
    ELSE IF k = "blank" THEN DataPrefix \o <<" ">> \o <<NL, NL>>
    ELSE <<":", "k", NL, NL>>

RECURSIVE EncodeAll(_)
EncodeAll(fs) == IF fs = <<>> THEN <<>> ELSE Encode(Head(fs)) \o EncodeAll(Tail(fs))

MaxFrames == 3

RECURSIVE SeqsUpTo(_, _)
SeqsUpTo(S, n) ==
    IF n = 0 THEN {<<>>}
    ELSE LET shorter == SeqsUpTo(S, n - 1) IN
         shorter \cup {Append(s, x) : s \in shorter, x \in S}

(***************************************************************************)
(* queryAgent's for loop over the complete lines of one read.  st is       *)
(* [delivered, returned, failure]; a terminal event ends the function.     *)
(***************************************************************************)
ReturnsAfter_NoReturn(event) == FALSE
ReturnsAfter(event) == IsTerminal(event)

\* The try/catch around JSON.parse and onEvent: a SyntaxError is logged and the
\* loop goes on.
OnParseError_Propagates(st) == [st EXCEPT !.failure = "parse"]
OnParseError(st) == st

HandleLine(line, st) ==
    IF ~StartsWith(line, DataPrefix) THEN st
    ELSE LET data == SubSeq(line, Len(DataPrefix) + 1, Len(line)) IN
         IF Trim(data) = <<>> THEN st
         ELSE LET event == JsonParse(data) IN
              IF event = "SyntaxError" THEN OnParseError(st)
              ELSE [st EXCEPT !.delivered = Append(@, event),
                              !.returned = ReturnsAfter(event)]

RECURSIVE ForLines(_, _)
ForLines(lines, st) ==
    IF lines = <<>> \/ st.returned \/ st.failure # "none" THEN st
    ELSE ForLines(Tail(lines), HandleLine(Head(lines), st))

\* What is kept for the next read: lines.pop() || ''
KeptBuffer_Forgotten(lines) == <<>>
KeptBuffer(lines) == lines[Len(lines)]

TInit ==
    /\ frames \in SeqsUpTo(FrameKinds, MaxFrames)
    /\ wire = EncodeAll(frames)
    /\ buffer = <<>>
    /\ delivered = <<>>
    /\ tphase = "fetching"
    /\ failure = "none"
    /\ midSplit = FALSE
    /\ messages = <<>>
    /\ loading = FALSE
    /\ loadingSeen = FALSE
    /\ sessionIdRef = Null
    /\ now = 0
    /\ calls = <<>>
    /\ analysisPending = {}
    /\ chart = NoChart
    /\ selectedDatabase = Database
    /\ feedback = NoFeedback

\* fetch resolves with a 2xx response
TFetchOk ==
    /\ tphase = "fetching"
    /\ tphase' = "reading"
    /\ UNCHANGED <<frames, wire, buffer, delivered, failure, midSplit, cvars, chart, uvars>>

\* if (!response.ok) throw error, and the outer catch's throw userError
AfterFetchFailure_BodyRead == "reading"
AfterFetchFailure == "rejected"

\* fetch rejects, or the response is not ok: the outer catch rethrows
TFetchFail ==
    /\ tphase = "fetching"
    /\ \E why \in {"fetch", "http"} : failure' = why
    /\ tphase' = AfterFetchFailure
    /\ UNCHANGED <<frames, wire, buffer, delivered, midSplit, cvars, chart, uvars>>

\* reader.read() resolves with the next k characters of the body
TRead ==
    /\ tphase = "reading"
    /\ wire # <<>>
    /\ \E k \in 1..Len(wire) :
        LET text == buffer \o SubSeq(wire, 1, k)
            lines == SplitLines(text, <<>>)
            st == ForLines(SubSeq(lines, 1, Len(lines) - 1),
                           [delivered |-> delivered, returned |-> FALSE, failure |-> "none"])
        IN /\ wire' = SubSeq(wire, k + 1, Len(wire))
           /\ buffer' = KeptBuffer(lines)
           /\ delivered' = st.delivered
           /\ failure' = st.failure
           /\ tphase' = IF st.failure # "none" THEN "rejected"
                        ELSE IF st.returned THEN "returned" ELSE "reading"
           /\ midSplit' = (midSplit \/ lines[Len(lines)] # <<>>)
    /\ UNCHANGED <<frames, cvars, chart, uvars>>

\* reader.read() resolves with done: break, and the function returns
TEof ==
    /\ tphase = "reading"
    /\ wire = <<>>
    /\ tphase' = "eof"
    /\ UNCHANGED <<frames, wire, buffer, delivered, failure, midSplit, cvars, chart, uvars>>

\* reader.read() rejects (the connection drops): the outer catch rethrows
TReadFail ==
    /\ tphase = "reading"
    /\ tphase' = "rejected"
    /\ failure' = "read"
    /\ UNCHANGED <<frames, wire, buffer, delivered, midSplit, cvars, chart, uvars>>

TNext == TFetchOk \/ TFetchFail \/ TRead \/ TEof \/ TReadFail

SpecTransport == TInit /\ [][TNext]_vars

(***************************************************************************)
(* JavaScript objects are records; a member that is absent reads undefined. *)
(***************************************************************************)
Has(o, f) == f \in DOMAIN o
Get(o, f) == IF f \in DOMAIN o THEN o[f] ELSE Undefined

\* { ...o, f: v }
Put(o, f, v) == [k \in DOMAIN o \cup {f} |-> IF k = f THEN v ELSE o[k]]

\* v || d
OrElse(v, d) == IF v \in {Undefined, Null, ""} THEN d ELSE v

(***************************************************************************)
(* utils/errorMessages.js.  An error text is known by its words; includes() *)
(* looks for a run of words in the lower-cased text.                       *)
(***************************************************************************)
WordsOf(text) ==
    CASE text = "Failed to fetch" -> <<"Failed", "to", "fetch">>
      [] text = "HTTP 500: Internal Server Error" ->
             <<"HTTP", "500", ":", "Internal", "Server", "Error">>
      [] text = "HTTP 404: Not Found" -> <<"HTTP", "404", ":", "Not", "Found">>
      [] text = "network error" -> <<"network", "error">>
      [] text = "SQL syntax error" -> <<"SQL", "syntax", "error">>
      [] text = "Request timed out" -> <<"Request", "timed", "out">>
      [] text = "[object Object]" -> <<"[object", "Object]">>
      [] OTHER -> <<text>>

LowerWord(w) ==
    CASE w = "Failed" -> "failed"
      [] w = "HTTP" -> "http"
      [] w = "Internal" -> "internal"
      [] w = "Server" -> "server"
      [] w = "Error" -> "error"
      [] w = "Not" -> "not"
      [] w = "Found" -> "found"
      [] w = "SQL" -> "sql"
      [] w = "Request" -> "request"
      [] w = "Object]" -> "object]"
      [] OTHER -> w

ToLowerCase(ws) == [i \in 1..Len(ws) |-> LowerWord(ws[i])]

Includes(ws, phrase) ==
    \E i \in 0..(Len(ws) - Len(phrase)) : SubSeq(ws, i + 1, i + Len(phrase)) = phrase


Msg ==
    [network |-> "We're having trouble connecting to the server. Please check your connection and try again.",
     timeout |-> "The request is taking longer than expected. Please try again.",
     server |-> "Our server encountered an issue. Please try again in a moment.",
     auth |-> "You don't have permission to access this resource. Please contact support if this persists.",
     notFound |-> "The requested resource couldn't be found. Please try again.",
     parse |-> "We received an unexpected response from the server. Please try again.",
     query |-> "We encountered an issue processing your query. Please try rephrasing your question.",
     schema |-> "We're having trouble loading the database structure. Please refresh the page.",
     streaming |-> "There was an issue with the real-time connection. Please try your query again.",
     feedback |-> "We couldn't submit your feedback at this time. Please try again later.",
     generic |-> "Something unexpected happened. Please try again, and if the issue persists, contact support."]

FriendlyMessages == {Msg[k] : k \in DOMAIN Msg}

\* errorMessage is error?.message || error?.toString() || 'Unknown error'
GetUserFriendlyError(errorMessage, context) ==
    LET raw == WordsOf(errorMessage)
        lower == ToLowerCase(raw)
        has(w) == Includes(lower, <<w>>)
    IN IF has("fetch") \/ has("network") \/ has("connection")
          \/ Includes(raw, <<"Failed", "to", "fetch">>) THEN Msg.network
       ELSE IF has("timeout") \/ Includes(lower, <<"timed", "out">>) THEN Msg.timeout
       ELSE IF has("500") \/ has("502") \/ has("503")
               \/ Includes(lower, <<"server", "error">>) THEN Msg.server
       ELSE IF has("401") \/ has("403") \/ has("unauthorized") \/ has("forbidden")
            THEN Msg.auth
       ELSE IF has("404") \/ Includes(lower, <<"not", "found">>) THEN Msg.notFound
       ELSE IF has("parse") \/ has("json") \/ Includes(lower, <<"unexpected", "token">>)
            THEN Msg.parse
       ELSE IF has("sql") \/ has("query") \/ has("database") THEN Msg.query
       ELSE IF context = "schema" \/ has("schema") THEN Msg.schema
       ELSE IF context = "streaming" \/ has("stream") THEN Msg.streaming
       ELSE IF context = "feedback" THEN Msg.feedback
       ELSE Msg.generic

(***************************************************************************)
(* hooks/useChat.js: the messages                                          *)
(***************************************************************************)
UserMessage(query, t) ==
    [id |-> t, content |-> query, timestamp |-> t, isUser |-> TRUE]

InitialAgentMessage(agentMessageId, t, database) ==
    [id |-> agentMessageId,
     content |-> "",
     sql_explanation |-> "",
     analysis_explanation |-> "",
     results |-> Null,
     visualization |-> Null,
     display_info |-> Null,
     query_id |-> Null,
     database |-> database,
     suggestedQueries |-> "[]",
     schemaOverview |-> Null,
     timestamp |-> t,
     isUser |-> FALSE,
     isLoading |-> TRUE,
     loadingStates |-> [sql |-> FALSE, data |-> FALSE,
                        analysis |-> FALSE, visualization |-> FALSE]]

ErrorMessage(content, t) ==
    [id |-> t + 1, content |-> content, timestamp |-> t, isUser |-> FALSE,
     isError |-> TRUE]

\* { ...msg.loadingStates, f: true }
SpreadOf(o, f) == IF Has(o, f) THEN o[f] ELSE [k \in {} |-> TRUE]

WithFlag(msg, f) == Put(SpreadOf(msg, "loadingStates"), f, TRUE)

AllLoaded == [sql |-> TRUE, data |-> TRUE, analysis |-> TRUE, visualization |-> TRUE]

\* Several members at once: fs is a sequence of <<member, value>>
RECURSIVE PutAll(_, _)
PutAll(o, fs) == IF fs = <<>> THEN o ELSE PutAll(Put(o, Head(fs)[1], Head(fs)[2]), Tail(fs))

(***************************************************************************)
(* The cases of the event switch, each the object the map callback returns *)
(* for the message whose id is agentMessageId.                             *)
(***************************************************************************)
CaseSql(msg, event, query) ==
    PutAll(msg, << <<"sql_explanation", Get(event, "explanation")>>,
                   <<"sql_query", Get(event, "sql")>>,
                   <<"query_id", Get(event, "query_id")>>,
                   <<"user_question", query>>,
                   <<"loadingStates", WithFlag(msg, "sql")>> >>)

CaseData(msg, event, query) ==
    PutAll(msg, << <<"results", Get(event, "results")>>,
                   <<"display_info", Get(event, "display_info")>>,
                   <<"loadingStates", WithFlag(msg, "data")>> >>)

CaseInterpretation_OnlyAnalysisFlag(msg, event, query) ==
    PutAll(msg, << <<"analysis_explanation", OrElse(Get(event, "analysis"), "")>>,
                   <<"visualization", OrElse(Get(event, "visualization"), Null)>>,
                   <<"schemaOverview", Get(event, "schema_overview")>>,
                   <<"suggestedQueries", Get(event, "suggested_queries")>>,
                   <<"loadingStates", WithFlag(msg, "analysis")>> >>)

CaseInterpretation(msg, event, query) ==
    PutAll(msg, << <<"analysis_explanation", OrElse(Get(event, "analysis"), "")>>,
                   <<"visualization", OrElse(Get(event, "visualization"), Null)>>,
                   <<"schemaOverview", Get(event, "schema_overview")>>,
                   <<"suggestedQueries", Get(event, "suggested_queries")>>,
                   <<"loadingStates",
                     Put(WithFlag(msg, "analysis"), "visualization", TRUE)>> >>)

CaseAnalysis(msg, event, query) ==
    PutAll(msg, << <<"analysis_explanation", Get(event, "explanation")>>,
                   <<"loadingStates", WithFlag(msg, "analysis")>> >>)

CaseVisualization(msg, event, query) ==
    PutAll(msg, << <<"visualization", Get(event, "visualization")>>,
                   <<"schemaOverview", Get(event, "schema_overview")>>,
                   <<"suggestedQueries", Get(event, "suggested_queries")>>,
                   <<"loadingStates", WithFlag(msg, "visualization")>> >>)

CaseGeneralAnswer_FlagsKept(msg, event, query) ==
    PutAll(msg, << <<"content", Get(event, "answer")>>,
                   <<"query_id", Get(event, "query_id")>>,
                   <<"isLoading", FALSE>> >>)

CaseGeneralAnswer(msg, event, query) ==
    PutAll(msg, << <<"content", Get(event, "answer")>>,
                   <<"query_id", Get(event, "query_id")>>,
                   <<"isLoading", FALSE>>,
                   <<"loadingStates", AllLoaded>> >>)

CaseGuidance(msg, event, query) ==
    PutAll(msg, << <<"content", Get(event, "message")>>,
                   <<"schemaOverview", Get(event, "schema_overview")>>,
                   <<"suggestedQueries", Get(event, "suggested_queries")>>,
                   <<"isLoading", FALSE>>,
                   <<"loadingStates", AllLoaded>> >>)

CaseDone_StillLoading(msg, event, query) == msg

CaseDone(msg, event, query) == Put(msg, "isLoading", FALSE)

\* getUserFriendlyError(event.message || event, 'streaming'); an event object
\* without a message of its own prints as "[object Object]"
ErrorTextOf(event) == OrElse(Get(event, "message"), "[object Object]")

\* the error case, were it to show the text it received
CaseError_Raw(msg, event, query) ==
    PutAll(msg, << <<"content", ErrorTextOf(event)>>,
                   <<"isError", TRUE>>, <<"isLoading", FALSE>> >>)

\* the error case, were it to leave isLoading as it is
CaseError_StillLoading(msg, event, query) ==
    PutAll(msg, << <<"content", GetUserFriendlyError(ErrorTextOf(event), "streaming")>>,
                   <<"isError", TRUE>> >>)

CaseError(msg, event, query) ==
    PutAll(msg, << <<"content", GetUserFriendlyError(ErrorTextOf(event), "streaming")>>,
                   <<"isError", TRUE>>,
                   <<"isLoading", FALSE>> >>)

MessageTypes ==
    {"sql", "data", "interpretation", "analysis", "visualization", "general_answer",
     "guidance", "done", "error"}

\* What the map callback returns for the addressed message
Apply(msg, event, query) ==
    CASE event.type = "sql" -> CaseSql(msg, event, query)
      [] event.type = "data" -> CaseData(msg, event, query)
      [] event.type = "interpretation" -> CaseInterpretation(msg, event, query)
      [] event.type = "analysis" -> CaseAnalysis(msg, event, query)
      [] event.type = "visualization" -> CaseVisualization(msg, event, query)
      [] event.type = "general_answer" -> CaseGeneralAnswer(msg, event, query)
      [] event.type = "guidance" -> CaseGuidance(msg, event, query)
      [] event.type = "done" -> CaseDone(msg, event, query)
      [] event.type = "error" -> CaseError(msg, event, query)
      [] OTHER -> msg

\* setMessages(prev => prev.map(msg => msg.id === agentMessageId ? ... : msg))
MapMessages(prev, agentMessageId, event, query) ==
    [i \in 1..Len(prev) |->
        IF prev[i].id = agentMessageId THEN Apply(prev[i], event, query) ELSE prev[i]]

\* case 'session': if (event.session_id) sessionIdRef.current = event.session_id
SessionAfter_Dropped(ref, event) == ref
SessionAfter(ref, event) ==
    IF event.type = "session" /\ OrElse(Get(event, "session_id"), Null) # Null
    THEN event.session_id ELSE ref

\* setLoading(false) in the done and error cases
LoadingAfter(flag, event) ==
    IF event.type \in {"done", "error"} THEN FALSE ELSE flag

(***************************************************************************)
(* The events a /chat stream can carry                                     *)
(***************************************************************************)
\* An object with the members of fs whose value is not undefined
RECURSIVE Obj(_)
Obj(fs) ==
    IF fs = <<>> THEN [k \in {} |-> Undefined]
    ELSE IF Head(fs)[2] = Undefined THEN Obj(Tail(fs))
    ELSE Put(Obj(Tail(fs)), Head(fs)[1], Head(fs)[2])

SessionEvent(id) == Obj(<< <<"type", "session">>, <<"session_id", id>> >>)
SqlEvent == [type |-> "sql", explanation |-> "e1", sql |-> "SELECT 1", query_id |-> "qid1"]
DataEvent(r, d) == Obj(<< <<"type", "data">>, <<"results", r>>, <<"display_info", d>> >>)
AnalysisEvent(a) == Obj(<< <<"type", "analysis">>, <<"explanation", a>> >>)
VisualizationEvent(v, s, q) ==
    Obj(<< <<"type", "visualization">>, <<"visualization", v>>,
           <<"schema_overview", s>>, <<"suggested_queries", q>> >>)
InterpretationEvent(a, v, s, q) ==
    Obj(<< <<"type", "interpretation">>, <<"analysis", a>>, <<"visualization", v>>,
           <<"schema_overview", s>>, <<"suggested_queries", q>> >>)
GeneralAnswerEvent == [type |-> "general_answer", answer |-> "ans1", query_id |-> "qid2"]
GuidanceEvent ==
    [type |-> "guidance", message |-> "g1", schema_overview |-> "so2",
     suggested_queries |-> "sq2"]
DoneEvent == [type |-> "done"]
ErrorEvent(m) == Obj(<< <<"type", "error">>, <<"message", m>> >>)

Events ==
    {SessionEvent(id) : id \in {"", "s1", "s2"}}
    \cup {SqlEvent, DataEvent("rows1", "di1"), AnalysisEvent("a1"),
          VisualizationEvent("v1", "so1", "sq1"),
          InterpretationEvent("a2", "v2", "so1", "sq1"),
          GeneralAnswerEvent, GuidanceEvent, DoneEvent,
          ErrorEvent("SQL syntax error"), [type |-> "ping"]}

(***************************************************************************)
(* services/api.js: the request queryAgent sends                           *)
(***************************************************************************)
RequestBody(query, sessionId, database) ==
    LET requestBody == [message |-> query, database |-> database,
                        include_interpretation |-> FALSE]
    IN IF OrElse(sessionId, Null) # Null
       THEN Put(requestBody, "session_id", sessionId) ELSE requestBody

\* the Error queryAgent's catch throws: its message
ThrownMessage(text) == GetUserFriendlyError(text, "streaming")

(***************************************************************************)
(* hooks/useChat.js and App.js: the steps                                  *)
(***************************************************************************)
MaxTurns == 2
MaxEvents == 2
MaxClock == 1

Queries == {"", "  ", "q1"}

\* String.prototype.trim on the queries typed
TrimQuery(query) == IF query \in {"", "  "} THEN "" ELSE query

\* if (!query.trim() || loading) return;  the same test guards handleSubmit
Blocked(query, loadingClosure) == TrimQuery(query) = "" \/ loadingClosure

\* setLoading(true)
LoadingAfterSubmit_Forgotten == FALSE
LoadingAfterSubmit == TRUE

InFlight(c) == calls[c].phase \in {"fetching", "reading"}

RECURSIVE TotalEvents(_)
TotalEvents(cs) == IF cs = <<>> THEN 0 ELSE Head(cs).n + TotalEvents(Tail(cs))

\* Date.now(): the clock is read, having moved on or not since the last reading
Readings == now..MaxClock

\* React commits a render: the closures now hold the current loading
Render ==
    /\ loadingSeen # loading
    /\ loadingSeen' = loading
    /\ UNCHANGED <<messages, loading, sessionIdRef, now, calls, analysisPending, tvars, chart, uvars>>

\* handleSubmit and sendMessage return at their guard
SubmitIgnored ==
    /\ \E query \in Queries : Blocked(query, loadingSeen)
    /\ UNCHANGED <<cvars, tvars, chart, uvars>>

\* handleSubmit -> sendMessage up to its await, queryAgent up to its fetch, with
\* the two Date.now() readings t1 and t2.  The submit is a discrete event: React
\* commits the render before the next event is handled.
Submit ==
    /\ Len(calls) < MaxTurns
    /\ \E query \in Queries, t1 \in Readings :
        /\ ~Blocked(query, loadingSeen)
        /\ \E t2 \in t1..Min(t1 + 1, MaxClock) :
            LET userMessage == UserMessage(query, t1)
                agentMessageId == t2 + 1
            IN /\ messages' = messages \o
                     <<userMessage, InitialAgentMessage(agentMessageId, t2, selectedDatabase)>>
               /\ calls' = Append(calls,
                     [agentMessageId |-> agentMessageId,
                      query |-> query,
                      body |-> RequestBody(query, sessionIdRef, selectedDatabase),
                      at |-> Len(messages) + 2,
                      phase |-> "fetching",
                      n |-> 0,
                      seen |-> {},
                      session |-> Null,
                      ended |-> "none"])
               /\ now' = t2
        /\ loading' = LoadingAfterSubmit
        /\ loadingSeen' = loading'
    /\ UNCHANGED <<sessionIdRef, analysisPending, tvars, chart, uvars>>

\* fetch resolves with a 2xx response
FetchOk ==
    /\ \E c \in DOMAIN calls :
        /\ calls[c].phase = "fetching"
        /\ calls' = [calls EXCEPT ![c].phase = "reading"]
    /\ UNCHANGED <<messages, loading, loadingSeen, sessionIdRef, now, analysisPending, tvars, chart, uvars>>

\* prev.filter(msg => msg.id !== agentMessageId)
KeepAfterFailure_All(msg, agentMessageId) == TRUE
KeepAfterFailure(msg, agentMessageId) == msg.id # agentMessageId

FilterMessages(prev, agentMessageId) ==
    LET F[i \in 0..Len(prev)] ==
            IF i = 0 THEN <<>>
            ELSE IF KeepAfterFailure(prev[i], agentMessageId)
                 THEN Append(F[i - 1], prev[i]) ELSE F[i - 1]
    IN F[Len(prev)]

\* sendMessage's catch: error.message || getUserFriendlyError(error, 'general')
Catch(c, text) ==
    LET agentMessageId == calls[c].agentMessageId
        friendlyMessage == OrElse(ThrownMessage(text),
                                  GetUserFriendlyError(ThrownMessage(text), "general"))
    IN \E t \in Readings :
        /\ messages' = Append(FilterMessages(messages, agentMessageId),
                              ErrorMessage(friendlyMessage, t))
        /\ now' = t
        /\ loading' = FALSE
        /\ calls' = [calls EXCEPT ![c].phase = "failed", ![c].ended = "thrown"]
        /\ UNCHANGED <<loadingSeen, sessionIdRef, analysisPending, tvars, chart, uvars>>

\* fetch rejects, or the response is not ok
FetchFail ==
    \E c \in DOMAIN calls :
        /\ calls[c].phase = "fetching"
        /\ \E text \in {"Failed to fetch", "HTTP 500: Internal Server Error"} :
              Catch(c, text)

\* reader.read() rejects while the body is being read
ReadFail ==
    \E c \in DOMAIN calls :
        /\ calls[c].phase = "reading"
        /\ Catch(c, "network error")

\* the callback sendMessage hands to queryAgent, run for call c
OnEvent(c, event) ==
    /\ messages' = MapMessages(messages, calls[c].agentMessageId, event, calls[c].query)
    /\ sessionIdRef' = SessionAfter(sessionIdRef, event)
    /\ loading' = LoadingAfter(loading, event)
    /\ calls' = [calls EXCEPT
            ![c].n = @ + 1,
            ![c].seen = @ \cup {event.type},
            ![c].session = IF event.type = "session" /\ event.session_id # ""
                           THEN event.session_id ELSE @,
            ![c].phase = IF event.type \in {"done", "error"} THEN "resolved" ELSE @,
            ![c].ended = IF event.type \in {"done", "error"} THEN event.type ELSE @]
    /\ UNCHANGED <<loadingSeen, now, analysisPending, tvars, chart, uvars>>

\* a data line parses and onEvent runs the switch; done and error end queryAgent
Deliver ==
    /\ TotalEvents(calls) < MaxEvents
    /\ \E c \in DOMAIN calls, event \in Events :
        /\ calls[c].phase = "reading"
        /\ OnEvent(c, event)

\* a line that is no data line, or whose JSON does not parse: nothing changes
DropLine ==
    /\ \E c \in DOMAIN calls : calls[c].phase = "reading"
    /\ UNCHANGED <<cvars, tvars, chart, uvars>>

\* reader.read() reports done: the loop breaks, queryAgent resolves and
\* sendMessage's try block ends
StreamEnd ==
    /\ \E c \in DOMAIN calls :
        /\ calls[c].phase = "reading"
        /\ calls' = [calls EXCEPT ![c].phase = "resolved", ![c].ended = "eof"]
    /\ UNCHANGED <<messages, loading, loadingSeen, sessionIdRef, now, analysisPending, tvars, chart, uvars>>

(***************************************************************************)
(* components/StreamingMessage.js: Show Analysis, and the hook's           *)
(* updateMessageAnalysis it ends in                                        *)
(***************************************************************************)
Truthy(v) == v \notin {Undefined, Null, ""}

\* what GET /api/interpret/<query_id> answers
Interpretations ==
    {Obj(<< <<"analysis", "a3">>, <<"visualization", "v3">>,
            <<"schema_overview", "so3">>, <<"suggested_queries", "sq3">> >>),
     Obj(<<>>)}

\* the button is rendered: query_id && results && !analysis_explanation && !loadingAnalysis
ButtonShown(m) ==
    /\ ~m.isUser
    /\ Truthy(Get(m, "query_id"))
    /\ Truthy(Get(m, "results"))
    /\ ~Truthy(Get(m, "analysis_explanation"))
    /\ m.id \notin {p.id : p \in analysisPending}

UpdateAnalysis(msg, analysisData) ==
    PutAll(msg, << <<"analysis_explanation", Get(analysisData, "analysis")>>,
                   <<"visualization", Get(analysisData, "visualization")>>,
                   <<"schemaOverview", Get(analysisData, "schema_overview")>>,
                   <<"suggestedQueries", Get(analysisData, "suggested_queries")>> >>)

UpdateMessageAnalysis(prev, messageId, analysisData) ==
    [i \in 1..Len(prev) |->
        IF prev[i].id = messageId THEN UpdateAnalysis(prev[i], analysisData) ELSE prev[i]]

\* a parameter declared as database = 'sample'
DefaultDatabase(database) == IF database = Undefined THEN "sample" ELSE database

\* fetchInterpretation(queryId, database): the request it sends
FetchInterpretation(queryId, database) ==
    [query_id |-> queryId, database |-> DefaultDatabase(database)]

\* handleShowAnalysis up to its await: fetchInterpretation(message.query_id)
ShowAnalysis ==
    /\ \E i \in DOMAIN messages :
        /\ ButtonShown(messages[i])
        /\ analysisPending' = analysisPending \cup
              {[id |-> messages[i].id,
                request |-> FetchInterpretation(messages[i].query_id, Undefined)]}
    /\ UNCHANGED <<messages, loading, loadingSeen, sessionIdRef, now, calls, tvars, chart, uvars>>

\* fetchInterpretation resolves: onUpdateAnalysis(message.id, data), then finally
AnalysisArrives ==
    /\ \E p \in analysisPending, data \in Interpretations :
        /\ messages' = UpdateMessageAnalysis(messages, p.id, data)
        /\ analysisPending' = analysisPending \ {p}
    /\ UNCHANGED <<loading, loadingSeen, sessionIdRef, now, calls, tvars, chart, uvars>>

\* fetchInterpretation rejects: setAnalysisError, then finally
AnalysisFails ==
    /\ \E p \in analysisPending : analysisPending' = analysisPending \ {p}
    /\ UNCHANGED <<messages, loading, loadingSeen, sessionIdRef, now, calls, tvars, chart, uvars>>

(***************************************************************************)
(* App.js: the database selection.  components/MessageFeedback.js and      *)
(* FeedbackModal.js: one MessageFeedback, mounted for a message that has a *)
(* query_id.  A button can be used when its disabled attribute is off,     *)
(* with the pointer or with the keyboard.                                  *)
(***************************************************************************)
MaxFeedback == 3

\* const availableDatabases = ['sample', 'neila']
Databases == {"sample", "neila"}

\* handleDatabaseChange
SelectDatabase ==
    /\ \E database \in Databases : selectedDatabase' = database
    /\ UNCHANGED <<cvars, tvars, chart, feedback>>

\* submitFeedback(feedbackData, database): the request it sends
SubmitFeedback(feedbackData, database) ==
    [data |-> feedbackData, database |-> DefaultDatabase(database)]

\* useState(null), useState(false), useState(false) for the message with this id
Mounted(id) ==
    [mounted |-> TRUE, id |-> id, feedbackGiven |-> Null, showModal |-> FALSE,
     isSubmitting |-> FALSE, pending |-> {}, sent |-> 0]

\* The component of message i: rendered when the message has a query_id
HasFeedback(i) ==
    /\ Truthy(Get(messages[i], "query_id"))
    /\ feedback.mounted => feedback.id = messages[i].id

FeedbackOf(i) == IF feedback.mounted THEN feedback ELSE Mounted(messages[i].id)

\* disabled={feedbackGiven !== null || isSubmitting}
ThumbsDisabled(fb) == fb.feedbackGiven # Null \/ fb.isSubmitting

\* handleThumbsUp up to its await
HandleThumbsUp ==
    /\ \E i \in DOMAIN messages :
        LET fb == FeedbackOf(i) IN
        /\ HasFeedback(i)
        /\ ~ThumbsDisabled(fb)
        /\ ~Truthy(fb.feedbackGiven)
        /\ fb.sent < MaxFeedback
        /\ feedback' = [fb EXCEPT
              !.isSubmitting = TRUE,
              !.pending = @ \cup {SubmitFeedback([type |-> "thumbs_up",
                                                  query_id |-> messages[i].query_id],
                                                 Undefined)},
              !.sent = @ + 1]
    /\ UNCHANGED <<cvars, tvars, chart, selectedDatabase>>

\* handleThumbsDown
HandleThumbsDown ==
    /\ \E i \in DOMAIN messages :
        LET fb == FeedbackOf(i) IN
        /\ HasFeedback(i)
        /\ ~ThumbsDisabled(fb)
        /\ ~Truthy(fb.feedbackGiven)
        /\ feedback' = [fb EXCEPT !.showModal = TRUE]
    /\ UNCHANGED <<cvars, tvars, chart, selectedDatabase>>

\* FeedbackModal's Submit (disabled={isSubmitting}): handleModalSubmit up to
\* its await
HandleModalSubmit ==
    /\ feedback.mounted
    /\ feedback.showModal
    /\ ~feedback.isSubmitting
    /\ feedback.sent < MaxFeedback
    /\ \E i \in DOMAIN messages :
        /\ messages[i].id = feedback.id
        /\ feedback' = [feedback EXCEPT
              !.isSubmitting = TRUE,
              !.pending = @ \cup {SubmitFeedback([type |-> "thumbs_down",
                                                  query_id |-> Get(messages[i], "query_id")],
                                                 Undefined)},
              !.sent = @ + 1]
    /\ UNCHANGED <<cvars, tvars, chart, selectedDatabase>>

\* Cancel, the close button, Escape or a click on the overlay: handleModalClose
HandleModalClose ==
    /\ feedback.mounted
    /\ feedback.showModal
    /\ feedback' = [feedback EXCEPT !.showModal = FALSE]
    /\ UNCHANGED <<cvars, tvars, chart, selectedDatabase>>

\* submitFeedback resolves: setFeedbackGiven, setShowModal(false) after a
\* thumbs down, then finally
FeedbackArrives ==
    /\ feedback.mounted
    /\ \E r \in feedback.pending :
        feedback' = [feedback EXCEPT
            !.feedbackGiven = IF r.data.type = "thumbs_up" THEN "up" ELSE "down",
            !.showModal = IF r.data.type = "thumbs_up" THEN @ ELSE FALSE,
            !.isSubmitting = FALSE,
            !.pending = @ \ {r}]
    /\ UNCHANGED <<cvars, tvars, chart, selectedDatabase>>

\* submitFeedback rejects: alert(friendlyError), then finally
FeedbackFails ==
    /\ feedback.mounted
    /\ \E r \in feedback.pending :
        feedback' = [feedback EXCEPT !.isSubmitting = FALSE, !.pending = @ \ {r}]
    /\ UNCHANGED <<cvars, tvars, chart, selectedDatabase>>

FeedbackNext ==
    \/ HandleThumbsUp
    \/ HandleThumbsDown
    \/ HandleModalSubmit
    \/ HandleModalClose
    \/ FeedbackArrives
    \/ FeedbackFails

Init ==
    /\ messages = <<>>
    /\ loading = FALSE
    /\ loadingSeen = FALSE
    /\ sessionIdRef = Null
    /\ now = 0
    /\ calls = <<>>
    /\ analysisPending = {}
    /\ chart = NoChart
    /\ selectedDatabase = Database
    /\ feedback = NoFeedback
    /\ frames = <<>>
    /\ wire = <<>>
    /\ buffer = <<>>
    /\ delivered = <<>>
    /\ tphase = "fetching"
    /\ failure = "none"
    /\ midSplit = FALSE

Next ==
    \/ Render
    \/ SubmitIgnored
    \/ Submit
    \/ FetchOk
    \/ FetchFail
    \/ ReadFail
    \/ Deliver
    \/ DropLine
    \/ StreamEnd
    \/ ShowAnalysis
    \/ AnalysisArrives
    \/ AnalysisFails

Spec == Init /\ [][Next]_vars

\* React commits every render it has scheduled; the server and the user are
\* under no obligation: a response may never settle, a read never return
SpecFair == Init /\ [][Next]_vars /\ WF_vars(Render)

\* The chat with the database selector and the feedback buttons in use
DatabaseNext == Next \/ SelectDatabase \/ FeedbackNext

SpecDatabase == Init /\ [][DatabaseNext]_vars

\* One MessageFeedback on its own, for a message whose SQL has arrived
FeedbackInit ==
    /\ \E database \in Databases :
          messages = <<UserMessage("q1", 0),
                       Apply(InitialAgentMessage(1, 0, database), SqlEvent, "q1")>>
    /\ selectedDatabase \in Databases
    /\ feedback = NoFeedback
    /\ loading = TRUE
    /\ loadingSeen = TRUE
    /\ sessionIdRef = Null
    /\ now = 0
    /\ calls = <<>>
    /\ analysisPending = {}
    /\ chart = NoChart
    /\ frames = <<>>
    /\ wire = <<>>
    /\ buffer = <<>>
    /\ delivered = <<>>
    /\ tphase = "fetching"
    /\ failure = "none"
    /\ midSplit = FALSE

SpecFeedback == FeedbackInit /\ [][FeedbackNext]_vars

(***************************************************************************)
(* The event callback on its own: one stream being read, whose events are  *)
(* the interpretation event and the two events it replaces, with every     *)
(* member present, null or absent.                                         *)
(***************************************************************************)
MaxApplied == 3

Dom ==
    [analysis |-> {Undefined, Null, "", "a1"},
     visualization |-> {Undefined, Null, "v1"},
     schema_overview |-> {Undefined, "so1"},
     suggested_queries |-> {Undefined, "sq1"}]

\* The call of a turn whose stream is being read
ReadingCall(agentMessageId, at) ==
    [agentMessageId |-> agentMessageId, query |-> "q1",
     body |-> RequestBody("q1", Null, Database), at |-> at,
     phase |-> "reading", n |-> 0, seen |-> {}, session |-> Null, ended |-> "none"]

\* A first turn being read, or a second one after a first that failed at fetch
\* with the clock not having moved
StreamInit ==
    /\ \/ /\ messages = <<UserMessage("q1", 0), InitialAgentMessage(1, 0, Database)>>
          /\ calls = <<ReadingCall(1, 2)>>
       \/ /\ messages = <<UserMessage("q1", 0), ErrorMessage(Msg.network, 0),
                          UserMessage("q1", 0), InitialAgentMessage(1, 0, Database)>>
          /\ calls = <<[ReadingCall(1, 2) EXCEPT !.phase = "failed", !.ended = "thrown"],
                       ReadingCall(1, 4)>>
    /\ loading = TRUE
    /\ loadingSeen = TRUE
    /\ sessionIdRef = Null
    /\ now = 0
    /\ analysisPending = {}
    /\ chart = NoChart
    /\ selectedDatabase = Database
    /\ feedback = NoFeedback
    /\ frames = <<>>
    /\ wire = <<>>
    /\ buffer = <<>>
    /\ delivered = <<>>
    /\ tphase = "fetching"
    /\ failure = "none"
    /\ midSplit = FALSE

MoreToApply ==
    /\ calls[Len(calls)].phase = "reading"
    /\ calls[Len(calls)].n < MaxApplied

OnInterpretation ==
    /\ MoreToApply
    /\ \E a \in Dom.analysis, v \in Dom.visualization, so \in Dom.schema_overview, sq \in Dom.suggested_queries :
          OnEvent(Len(calls), InterpretationEvent(a, v, so, sq))

OnAnalysis ==
    /\ MoreToApply
    /\ \E a \in Dom.analysis : OnEvent(Len(calls), AnalysisEvent(a))

OnVisualization ==
    /\ MoreToApply
    /\ \E v \in Dom.visualization, so \in Dom.schema_overview, sq \in Dom.suggested_queries :
          OnEvent(Len(calls), VisualizationEvent(v, so, sq))

OnSql ==
    /\ MoreToApply
    /\ OnEvent(Len(calls), SqlEvent)

OnData ==
    /\ MoreToApply
    /\ OnEvent(Len(calls), DataEvent("rows1", "di1"))

OnDone ==
    /\ MoreToApply
    /\ OnEvent(Len(calls), DoneEvent)

StreamNext ==
    \/ OnInterpretation
    \/ OnAnalysis
    \/ OnVisualization
    \/ OnSql
    \/ OnData
    \/ OnDone
    \/ ShowAnalysis
    \/ AnalysisArrives
    \/ AnalysisFails

SpecEvents == StreamInit /\ [][StreamNext]_vars

(***************************************************************************)
(* components/DataVisualization.js and ConditionalVisualization of         *)
(* StreamingMessage.js.  A column name is the sequence of its characters,  *)
(* a cell is its typeof and its printed value, a row is its fields in key  *)
(* order.                                                                  *)
(***************************************************************************)
MaxRows == 6

StringCell(v) == [t |-> "string", v |-> v]
NumberCell(v) == [t |-> "number", v |-> v]
UndefinedCell == [t |-> "undefined", v |-> ""]

LowerChar(ch) ==
    LET UpperCase ==
            <<"A", "B", "C", "D", "E", "F", "G", "H", "I", "J", "K", "L", "M",
              "N", "O", "P", "Q", "R", "S", "T", "U", "V", "W", "X", "Y", "Z">>
        LowerCase ==
            <<"a", "b", "c", "d", "e", "f", "g", "h", "i", "j", "k", "l", "m",
              "n", "o", "p", "q", "r", "s", "t", "u", "v", "w", "x", "y", "z">>
    IN IF \E i \in 1..26 : UpperCase[i] = ch
       THEN LowerCase[CHOOSE i \in 1..26 : UpperCase[i] = ch] ELSE ch

\* String.prototype.toLowerCase
LowerName(name) == [i \in 1..Len(name) |-> LowerChar(name[i])]

\* String.prototype.includes
Contains(s, p) == \E i \in 0..(Len(s) - Len(p)) : SubSeq(s, i + 1, i + Len(p)) = p

\* column names, as the characters includes() and toLowerCase() work on: the
\* names the component tests for, and the names of the columns of the data
Key ==
    [count |-> <<"c", "o", "u", "n", "t">>,
     total |-> <<"t", "o", "t", "a", "l">>,
     sum |-> <<"s", "u", "m">>,
     avg |-> <<"a", "v", "g">>,
     average |-> <<"a", "v", "e", "r", "a", "g", "e">>,
     max |-> <<"m", "a", "x">>,
     min |-> <<"m", "i", "n">>,
     value |-> <<"v", "a", "l", "u", "e">>,
     amount |-> <<"a", "m", "o", "u", "n", "t">>,
     name |-> <<"n", "a", "m", "e">>,
     label |-> <<"l", "a", "b", "e", "l">>,
     title |-> <<"t", "i", "t", "l", "e">>,
     category |-> <<"c", "a", "t", "e", "g", "o", "r", "y">>,
     group |-> <<"g", "r", "o", "u", "p">>,
     type |-> <<"t", "y", "p", "e">>,
     num |-> <<"n", "u", "m">>,
     number |-> <<"n", "u", "m", "b", "e", "r">>,
     items |-> <<"i", "t", "e", "m", "s">>,
     vip |-> <<"v", "i", "p">>,
     pool |-> <<"p", "o", "o", "l">>,
     region |-> <<"r", "e", "g", "i", "o", "n">>,
     port |-> <<"p", "o", "r", "t">>,
     device |-> <<"d", "e", "v", "i", "c", "e">>,
     host |-> <<"h", "o", "s", "t">>,
     Name |-> <<"N", "a", "m", "e">>,
     user_count |-> <<"u", "s", "e", "r", "_", "c", "o", "u", "n", "t">>]

\* null, undefined and '' as a column name
NoColumn == <<>>

ObjectKeys(row) == [i \in 1..Len(row) |-> row[i].k]
HasOwnProperty(row, name) == \E i \in 1..Len(row) : row[i].k = name
Field(row, name) ==
    IF HasOwnProperty(row, name)
    THEN row[CHOOSE i \in 1..Len(row) : row[i].k = name].v ELSE UndefinedCell

AggregateCharts == {"bar", "pie", "line"}
RenderedCharts == {"bar", "line", "pie", "scatter", "area"}
AggregateWords == {Key.count, Key.total, Key.sum, Key.avg, Key.average, Key.max, Key.min}

SuggestsAggregate(key) ==
    LET lowerKey == LowerName(key)
    IN \/ \E w \in AggregateWords : Contains(lowerKey, w)
       \/ lowerKey = Key.value
       \/ lowerKey = Key.amount

HasNumericAggregate(firstRow) ==
    \E i \in 1..Len(firstRow) :
        firstRow[i].v.t = "number" /\ SuggestsAggregate(firstRow[i].k)

StringColumnCount(firstRow) ==
    Cardinality({i \in 1..Len(firstRow) : firstRow[i].v.t = "string"})

IsRelationshipData_Never(firstRow) == FALSE
IsRelationshipData(firstRow) ==
    StringColumnCount(firstRow) >= 2 /\ ~HasNumericAggregate(firstRow)

\* new Set(xValues).size < xValues.length
HasDuplicates(processedData, x_column) ==
    Cardinality({Field(processedData[i], x_column) : i \in 1..Len(processedData)})
        < Len(processedData)

IndividualRecords(processedData, x_column) ==
    /\ ~HasNumericAggregate(processedData[1])
    /\ ~HasDuplicates(processedData, x_column)
    /\ Len(processedData) > 5

\* Array.prototype.find over the indexes that satisfy its test
FirstOf(cols, hits) ==
    IF hits = {} THEN NoColumn ELSE cols[CHOOSE i \in hits : \A j \in hits : i <= j]

Aliases(lowerSuggested) ==
    CASE lowerSuggested = Key.name -> <<Key.label, Key.title, Key.category, Key.group>>
      [] lowerSuggested = Key.count -> <<Key.total, Key.value, Key.amount, Key.num, Key.number>>
      [] lowerSuggested = Key.value -> <<Key.count, Key.total, Key.amount, Key.num>>
      [] lowerSuggested = Key.category -> <<Key.name, Key.label, Key.group, Key.type>>
      [] OTHER -> <<>>

AliasMatch(cols, possibleAliases) ==
    LET Matches(a) == {i \in 1..Len(cols) : LowerName(cols[i]) = possibleAliases[a]}
        found == {a \in 1..Len(possibleAliases) : Matches(a) # {}}
    IN IF found = {} THEN NoColumn
       ELSE FirstOf(cols, Matches(CHOOSE a \in found : \A b \in found : a <= b))

CategoricalColumn(cols, firstRow) ==
    FirstOf(cols, {i \in 1..Len(cols) :
                      Field(firstRow, cols[i]).t = "string" /\ cols[i] # Key.items})

NumericColumn(cols, firstRow) ==
    FirstOf(cols, {i \in 1..Len(cols) : Field(firstRow, cols[i]).t = "number"})

FallbackNames(isXColumn) ==
    IF isXColumn THEN {Key.name, Key.category} ELSE {Key.count, Key.value}

FindSuitableColumn(suggestedName, availableCols, isXColumn, firstRow) ==
    LET lowerSuggested == LowerName(suggestedName)
        caseInsensitiveMatch ==
            FirstOf(availableCols,
                    {i \in 1..Len(availableCols) :
                        LowerName(availableCols[i]) = lowerSuggested})
        partialMatch ==
            FirstOf(availableCols,
                    {i \in 1..Len(availableCols) :
                        \/ Contains(LowerName(availableCols[i]), lowerSuggested)
                        \/ Contains(lowerSuggested, LowerName(availableCols[i]))})
        aliasMatch == AliasMatch(availableCols, Aliases(lowerSuggested))
        typed == IF isXColumn THEN CategoricalColumn(availableCols, firstRow)
                 ELSE NumericColumn(availableCols, firstRow)
    IN IF \E i \in 1..Len(availableCols) : availableCols[i] = suggestedName
       THEN suggestedName
       ELSE IF caseInsensitiveMatch # NoColumn THEN caseInsensitiveMatch
       ELSE IF partialMatch # NoColumn THEN partialMatch
       ELSE IF aliasMatch # NoColumn THEN aliasMatch
       ELSE IF lowerSuggested \in FallbackNames(isXColumn) THEN typed
       ELSE NoColumn

\* What a component returns: null, an element without a chart, a chart, or a throw
Output(kind, type, x_column, y_column) ==
    [kind |-> kind, type |-> type, x |-> x_column, y |-> y_column]

Unrendered == Output("unrendered", "", NoColumn, NoColumn)
ReturnsNull == Output("null", "", NoColumn, NoColumn)
Throws == Output("throws", "", NoColumn, NoColumn)

\* renderChart: the switch on chartType
RenderChart(type, x_column, y_column) ==
    IF type \in RenderedCharts THEN Output("chart", type, x_column, y_column)
    ELSE Output("unsupported type", type, x_column, y_column)

DataVisualization(visualization, data) ==
    IF ~visualization.present \/ Len(data) = 0 THEN ReturnsNull
    ELSE IF visualization.type = "none" THEN ReturnsNull
    ELSE
      LET type == visualization.type
          x_column == visualization.config.x_column
          y_column == visualization.config.y_column
          processedData == IF visualization.data.given THEN visualization.data.rows
                           ELSE data
      IN IF x_column = NoColumn \/ y_column = NoColumn
         THEN Output("missing configuration", type, x_column, y_column)
         ELSE IF Len(processedData) = 0 THEN Throws
         ELSE
           LET firstRow == processedData[1]
               availableColumns == ObjectKeys(firstRow)
               mappedX == FindSuitableColumn(x_column, availableColumns, TRUE, firstRow)
               mappedY == FindSuitableColumn(y_column, availableColumns, FALSE, firstRow)
           IN IF type \in AggregateCharts /\ IsRelationshipData(firstRow)
              THEN ReturnsNull
              ELSE IF type \in AggregateCharts /\ IndividualRecords(processedData, x_column)
              THEN ReturnsNull
              ELSE IF HasOwnProperty(firstRow, x_column) /\ HasOwnProperty(firstRow, y_column)
              THEN RenderChart(type, x_column, y_column)
              ELSE IF mappedX # NoColumn /\ mappedY # NoColumn
              THEN RenderChart(type, mappedX, mappedY)
              ELSE Output("columns not found", type, x_column, y_column)

\* StreamingMessage: message.visualization && <ConditionalVisualization .../>
ConditionalVisualization(visualization, data) ==
    IF ~visualization.present \/ visualization.type = "none" THEN ReturnsNull
    ELSE LET processedData ==
                 IF visualization.data.given /\ Len(visualization.data.rows) > 0
                 THEN visualization.data.rows ELSE data
         IN IF Len(processedData) = 0 THEN ReturnsNull
            ELSE DataVisualization(visualization, processedData)

(***************************************************************************)
(* The descriptors and result sets rendered                                *)
(***************************************************************************)
Shapes ==
    { << <<Key.vip, "string">>, <<Key.pool, "string">> >>,
      << <<Key.region, "string">>, <<Key.count, "number">> >>,
      << <<Key.name, "string">>, <<Key.port, "number">> >>,
      << <<Key.device, "string">>, <<Key.port, "number">> >>,
      << <<Key.items, "string">>, <<Key.host, "string">>, <<Key.total, "number">> >>,
      << <<Key.region, "string">>, <<Key.user_count, "number">> >> }

\* Row i of a result set: distinct values down each column, or one value repeated
RowOf(shape, i, repeated) ==
    [c \in 1..Len(shape) |->
        [k |-> shape[c][1],
         v |-> IF shape[c][2] = "number" THEN NumberCell(ToString(i))
               ELSE StringCell(IF repeated THEN "same" ELSE ToString(i))]]

Rows(shape, n, repeated) == [i \in 1..n |-> RowOf(shape, i, repeated)]

ResultSets ==
    {Rows(shape, n, repeated) : shape \in Shapes, n \in 0..MaxRows, repeated \in BOOLEAN}

NoData == [given |-> FALSE, rows |-> <<>>]
BackendData ==
    {NoData,
     [given |-> TRUE, rows |-> <<>>],
     [given |-> TRUE, rows |-> Rows(<< <<Key.region, "string">>, <<Key.count, "number">> >>,
                                    2, FALSE)]}

ChartTypes == {"bar", "pie", "line", "scatter", "area", "none", "histogram"}
XNames == {NoColumn, Key.vip, Key.region, Key.name, Key.Name, Key.host, Key.category}
YNames == {NoColumn, Key.pool, Key.count, Key.port, Key.value}

Descriptor(type, x_column, y_column, data) ==
    [present |-> TRUE, type |-> type,
     config |-> [x_column |-> x_column, y_column |-> y_column], data |-> data]

NoDescriptor ==
    [present |-> FALSE, type |-> "",
     config |-> [x_column |-> NoColumn, y_column |-> NoColumn], data |-> NoData]

Descriptors ==
    {NoDescriptor} \cup
    {Descriptor(type, x, y, d) :
        type \in ChartTypes, x \in XNames, y \in YNames, d \in BackendData}

ChartInit ==
    /\ chart \in {[phase |-> "props", visualization |-> v, results |-> r,
                   output |-> Unrendered] : v \in Descriptors, r \in ResultSets}
    /\ messages = <<>>
    /\ loading = FALSE
    /\ loadingSeen = FALSE
    /\ sessionIdRef = Null
    /\ now = 0
    /\ calls = <<>>
    /\ analysisPending = {}
    /\ frames = <<>>
    /\ wire = <<>>
    /\ buffer = <<>>
    /\ delivered = <<>>
    /\ tphase = "fetching"
    /\ failure = "none"
    /\ midSplit = FALSE
    /\ selectedDatabase = Database
    /\ feedback = NoFeedback

\* React renders the visualization of a message
RenderVisualization ==
    /\ chart.phase = "props"
    /\ chart' = [chart EXCEPT
                    !.phase = "rendered",
                    !.output = ConditionalVisualization(chart.visualization,
                                                        chart.results)]
    /\ UNCHANGED <<cvars, tvars, uvars>>

ChartNext == RenderVisualization

SpecChart == ChartInit /\ [][ChartNext]_vars

(***************************************************************************)
(* Transport claims                                                        *)
(***************************************************************************)
IsPrefix(s, t) == Len(s) <= Len(t) /\ SubSeq(t, 1, Len(s)) = s

\* The events of the well-formed frames, in the order written, up to and
\* including the first terminal one
RECURSIVE Expected(_)
Expected(fs) ==
    IF fs = <<>> THEN <<>>
    ELSE IF Head(fs) \in TerminalTypes THEN <<Head(fs)>>
    ELSE IF Head(fs) \in NonTerminalTypes THEN <<Head(fs)>> \o Expected(Tail(fs))
    ELSE Expected(Tail(fs))

OnlyNonTerminalFrames == \A i \in 1..Len(frames) : frames[i] \in NonTerminalTypes

\* C3: a body made of N well-formed non-terminal frames, however it is cut into
\* reads, makes queryAgent call onEvent once per frame, in order: what has been
\* delivered is always a prefix of the frames written, and all N of them once the
\* body has been read to its end.
C3_ChunkingKeepsFrames ==
    OnlyNonTerminalFrames =>
        /\ IsPrefix(delivered, frames)
        /\ tphase = "eof" => delivered = frames

C3_Witness ==
    /\ OnlyNonTerminalFrames
    /\ Len(frames) >= 2
    /\ tphase = "eof"
    /\ midSplit
    /\ delivered = frames

\* C8: a done or error event is the last event queryAgent delivers: no delivered
\* event but the last is terminal, and once a terminal event has been delivered
\* the call has returned, whatever is left in the read or in the body.
C8_NothingAfterTerminal ==
    /\ \A i \in 1..Len(delivered) : IsTerminal(delivered[i]) => i = Len(delivered)
    /\ (delivered # <<>> /\ IsTerminal(delivered[Len(delivered)])) => tphase = "returned"

C8_Witness ==
    /\ tphase = "returned"
    /\ wire = <<>>
    /\ \E i \in 1..Len(frames) : \E j \in (i + 1)..Len(frames) :
          frames[i] \in TerminalTypes /\ frames[j] \in TypeChars
    /\ Len(delivered) = 1

\* C9: a data line whose payload is not valid JSON is dropped: queryAgent does
\* not reject because of it, onEvent is not called for it, and the well-formed
\* frames around it are delivered in order (up to the first terminal one).
HasBadFrame == \E i \in 1..Len(frames) : frames[i] = "bad"

C9_MalformedFrameDropped ==
    HasBadFrame =>
        /\ failure # "parse"
        /\ IsPrefix(delivered, Expected(frames))
        /\ tphase \in {"eof", "returned"} => delivered = Expected(frames)

C9_Witness ==
    /\ Len(frames) >= 3
    /\ frames[1] \in NonTerminalTypes
    /\ frames[2] = "bad"
    /\ frames[3] \in NonTerminalTypes
    /\ tphase = "eof"
    /\ midSplit
    /\ delivered = <<frames[1], frames[3]>>

(***************************************************************************)
(* Conversation claims                                                     *)
(***************************************************************************)
IsLoadingMessage(m) == Has(m, "isLoading") /\ m.isLoading = TRUE
NotLoadingMessage(m) == Has(m, "isLoading") /\ m.isLoading = FALSE
FlagSet(m, f) ==
    /\ Has(m, "loadingStates")
    /\ Has(m.loadingStates, f)
    /\ m.loadingStates[f] = TRUE

\* The messages the events of call c address
Addressed(c) == {i \in DOMAIN messages : messages[i].id = calls[c].agentMessageId}

\* The loading flags an event of a given type refers to
FlagsOf(type) ==
    CASE type \in {"sql", "data", "analysis", "visualization"} -> {type}
      [] type = "interpretation" -> {"analysis", "visualization"}
      [] type \in {"general_answer", "guidance"} ->
             {"sql", "data", "analysis", "visualization"}
      [] OTHER -> {}

C2_EndOfStreamIsAnError ==
    \A c \in DOMAIN calls :
        (c = Len(calls) /\ calls[c].ended = "eof") =>
            /\ loading = FALSE
            /\ \A i \in Addressed(c) : ~IsLoadingMessage(messages[i])

\* C4: one interpretation event leaves a message as the analysis event followed
\* by the visualization event would.
AgentMessages == {messages[i] : i \in {j \in DOMAIN messages : ~messages[j].isUser}}

SameAsLegacyPair(m, a, v, so, sq) ==
    Apply(m, InterpretationEvent(a, v, so, sq), "q1")
        = Apply(Apply(m, AnalysisEvent(a), "q1"), VisualizationEvent(v, so, sq), "q1")

PriorSession(c) ==
    LET ks == {k \in 1..(c - 1) : calls[k].session # Null}
    IN IF ks = {} THEN Null
       ELSE calls[CHOOSE k \in ks : \A j \in ks : j <= k].session

C5_SessionThreaded ==
    \A c \in DOMAIN calls :
        IF PriorSession(c) = Null THEN ~Has(calls[c].body, "session_id")
        ELSE /\ Has(calls[c].body, "session_id")
             /\ calls[c].body.session_id = PriorSession(c)

C5_Witness ==
    /\ Len(calls) = 2
    /\ ~Has(calls[1].body, "session_id")
    /\ calls[1].session = "s1"
    /\ Has(calls[2].body, "session_id")
    /\ calls[2].body.session_id = "s1"

\* C6: the step in which queryAgent fails before any event leaves the turn as
\* its user message followed by one standalone error message: the placeholder
\* is gone, no message addressed by the turn is loading, and the loading flag
\* is false.
StandaloneError(m) ==
    /\ DOMAIN m = {"id", "content", "timestamp", "isUser", "isError"}
    /\ m.isError = TRUE
    /\ m.isUser = FALSE
    /\ m.content \in FriendlyMessages

ThrownStep(c) == calls[c].ended = "none" /\ calls'[c].ended = "thrown"

C6_FailureReplacesPlaceholder ==
    [][\A c \in DOMAIN calls :
          (ThrownStep(c) /\ calls[c].n = 0) =>
              LET k == Len(messages') IN
              /\ k >= 2
              /\ StandaloneError(messages'[k])
              /\ messages'[k - 1].isUser
              /\ messages'[k - 1].content = calls[c].query
              /\ \A i \in DOMAIN messages' :
                    messages'[i].id = calls[c].agentMessageId
                        => ~IsLoadingMessage(messages'[i])
              /\ \A i \in DOMAIN messages' : calls[c].at <= i =>
                    ~Has(messages'[i], "loadingStates")
              /\ loading' = FALSE]_vars

C6_Witness ==
    /\ Len(calls) = 1
    /\ calls[1].ended = "thrown"
    /\ calls[1].n = 0
    /\ Len(messages) = 2
    /\ messages[1].isUser
    /\ StandaloneError(messages[2])
    /\ messages[2].content = Msg.server
    /\ loading = FALSE

\* C7: at most one stream is open at any time, and no message is in the list
\* that an accepted sendMessage call did not put there: a call made while a
\* stream is open returns at the guard.
OpenStreams == {c \in DOMAIN calls : InFlight(c)}

C7_SingleStream ==
    /\ Cardinality(OpenStreams) <= 1
    /\ Len(messages) <= 2 * Len(calls)
    /\ OpenStreams # {} => Blocked("q1", loadingSeen)

C7_Witness ==
    /\ Len(calls) = 2
    /\ OpenStreams = {2}
    /\ calls[1].ended = "done"
    /\ Blocked("q1", loadingSeen)
    /\ Len(messages) = 4

\* C10: the error event changes the in-flight agent message alone: that message
\* gets the translated text, isError = true and isLoading = false, the loading
\* flag becomes false, and every other message stays as it was.
ErrorTexts ==
    {GetUserFriendlyError(ErrorTextOf(e), "streaming") : e \in {x \in Events : x.type = "error"}}

ErrorStep(c) == calls[c].ended = "none" /\ calls'[c].ended = "error"

C10_ErrorTouchesInFlightOnly ==
    [][\A c \in DOMAIN calls :
          ErrorStep(c) =>
              /\ loading' = FALSE
              /\ Len(messages') = Len(messages)
              /\ \A i \in DOMAIN messages :
                    IF i = calls[c].at
                    THEN /\ messages'[i].content \in ErrorTexts
                         /\ messages'[i].isError = TRUE
                         /\ messages'[i].isLoading = FALSE
                    ELSE messages'[i] = messages[i]]_vars

\* C11: the step that applies a general_answer or a guidance event gives every
\* message it addresses the event's text as content (answer, respectively
\* message), all four loading flags true and isLoading = false, whatever the
\* flags were before.
FirstOfType(c, type) ==
    /\ calls'[c].n = calls[c].n + 1
    /\ type \notin calls[c].seen
    /\ type \in calls'[c].seen

DirectAnswer(m, text) ==
    /\ m.content = text
    /\ Has(m, "loadingStates")
    /\ m.loadingStates = AllLoaded
    /\ NotLoadingMessage(m)

C11_DirectAnswerCompletes ==
    [][\A c \in DOMAIN calls :
          /\ FirstOfType(c, "general_answer") =>
                \A i \in Addressed(c) : DirectAnswer(messages'[i], GeneralAnswerEvent.answer)
          /\ FirstOfType(c, "guidance") =>
                \A i \in Addressed(c) : DirectAnswer(messages'[i], GuidanceEvent.message)]_vars

C11_Witness ==
    /\ Len(calls) = 1
    /\ calls[1].seen = {"sql", "general_answer"}
    /\ calls[1].n = 2
    /\ messages[2].sql_explanation = "e1"
    /\ DirectAnswer(messages[2], "ans1")

\* C12: an agent message to which done or error has been applied is not changed
\* by any later step.
Terminated(c) == calls[c].ended \in {"done", "error"}

C12_FinishedMessageImmutable ==
    [][\A c \in DOMAIN calls :
          Terminated(c) => messages'[calls[c].at] = messages[calls[c].at]]_vars

\* C13: the session slot is written once: after it holds a session id no step
\* changes it.
C13_SessionWrittenOnce ==
    [][sessionIdRef # Null => sessionIdRef' = sessionIdRef]_vars

\* C14: a stream that is being read does not stay open with the loading flag
\* set for ever: the read ends or the loading flag becomes false.
StreamOpen == \E c \in DOMAIN calls : calls[c].phase = "reading"

C14_IdleReadBounded == (StreamOpen /\ loading) ~> (~StreamOpen \/ ~loading)

(***************************************************************************)
(* Chart claims                                                            *)
(***************************************************************************)
Rendered == chart.phase = "rendered"

\* The rows the chart is drawn from: the descriptor's own when it has some
ChartedData ==
    IF chart.visualization.data.given /\ chart.visualization.data.rows # <<>>
    THEN chart.visualization.data.rows ELSE chart.results

AggregateField(row) ==
    \E i \in 1..Len(row) : row[i].v.t = "number" /\ SuggestsAggregate(row[i].k)

TwoStringFields(row) ==
    \E i, j \in 1..Len(row) : i # j /\ row[i].v.t = "string" /\ row[j].v.t = "string"

NamesColumns(row) ==
    /\ \E i \in 1..Len(row) : row[i].k = chart.visualization.config.x_column
    /\ \E i \in 1..Len(row) : row[i].k = chart.visualization.config.y_column

\* C15: for bar, pie and line, when the first row of the data has two or more
\* string fields and no numeric aggregate field, no chart is rendered, whatever
\* the number of rows and the x and y names.
C15_RelationshipDataSuppressed ==
    (/\ Rendered
     /\ chart.visualization.present
     /\ chart.visualization.type \in AggregateCharts
     /\ ChartedData # <<>>
     /\ TwoStringFields(ChartedData[1])
     /\ ~AggregateField(ChartedData[1]))
        => chart.output.kind # "chart"

C15_Witness ==
    /\ Rendered
    /\ chart.visualization = Descriptor("bar", Key.vip, Key.pool, NoData)
    /\ chart.results = Rows(<< <<Key.vip, "string">>, <<Key.pool, "string">> >>, 2, FALSE)
    /\ chart.output = ReturnsNull

\* C16: for bar, pie and line, more than 5 rows with no numeric aggregate field
\* in the first row and no repeated value in the resolved x column are not
\* charted.
ResolvedX ==
    FindSuitableColumn(chart.visualization.config.x_column,
                       ObjectKeys(ChartedData[1]), TRUE, ChartedData[1])

DistinctDown(rows, column) ==
    \A i, j \in 1..Len(rows) : i # j => Field(rows[i], column) # Field(rows[j], column)

C16_IndividualRecordsSuppressed ==
    (/\ Rendered
     /\ chart.visualization.present
     /\ chart.visualization.type \in AggregateCharts
     /\ Len(ChartedData) > 5
     /\ ~AggregateField(ChartedData[1])
     /\ ResolvedX # NoColumn
     /\ DistinctDown(ChartedData, ResolvedX))
        => chart.output.kind # "chart"

\* C17: with one of the five chart types renderChart draws, results that are not empty, x_column
\* and y_column naming columns of the data and a numeric aggregate field in the
\* first row, the chart is rendered on those columns; for scatter and area the
\* aggregate field is not needed.
C17_SuitableDataRendered ==
    (/\ Rendered
     /\ chart.visualization.present
     /\ chart.visualization.type \in RenderedCharts
     /\ chart.results # <<>>
     /\ NamesColumns(ChartedData[1])
     /\ \/ AggregateField(ChartedData[1])
        \/ chart.visualization.type \in {"scatter", "area"})
        => chart.output = Output("chart", chart.visualization.type,
                                 chart.visualization.config.x_column,
                                 chart.visualization.config.y_column)

\* C18: nothing at all is rendered when the descriptor is absent, its type is
\* none, the results are empty, or x_column or y_column is absent.
C18_RejectedRendersNothing ==
    (/\ Rendered
     /\ \/ ~chart.visualization.present
        \/ chart.visualization.type = "none"
        \/ chart.results = <<>>
        \/ chart.visualization.config.x_column = NoColumn
        \/ chart.visualization.config.y_column = NoColumn)
        => chart.output = ReturnsNull

\* C19: column resolution fails only when, for one of the axes, no rule
\* matches, the last rule being the first string column other than items for
\* x and the first numeric column for y, whatever the suggested name.
C19_ResolutionFailsOnlyWithoutCandidate ==
    (Rendered /\ chart.output.kind = "columns not found")
        => \/ CategoricalColumn(ObjectKeys(ChartedData[1]), ChartedData[1]) = NoColumn
           \/ NumericColumn(ObjectKeys(ChartedData[1]), ChartedData[1]) = NoColumn

\* C20: every failure text that reaches a message's content is one of the
\* pre-written messages of getUserFriendlyError and never the text received:
\* the step that applies an error event gives the messages it addresses such a
\* content, the step in which queryAgent fails appends a message with such a
\* content, and getUserFriendlyError returns one for every text and context.
ErrorSamples ==
    {"Failed to fetch", "HTTP 500: Internal Server Error", "HTTP 404: Not Found",
     "network error", "SQL syntax error", "Request timed out", "[object Object]",
     "boom"}

Contexts == {"general", "streaming", "schema", "feedback"}

Prewritten(content) == content \in FriendlyMessages \ ErrorSamples

EveryTextTranslated ==
    \A text \in ErrorSamples, context \in Contexts :
        Prewritten(GetUserFriendlyError(text, context))

C20_FailureTextIsPrewritten ==
    [][/\ \A c \in DOMAIN calls :
             /\ ErrorStep(c) =>
                    \A i \in Addressed(c) : Prewritten(messages'[i].content)
             /\ ThrownStep(c) =>
                    /\ messages'[Len(messages')].isError = TRUE
                    /\ Prewritten(messages'[Len(messages')].content)
       /\ EveryTextTranslated]_vars

C20_Witness ==
    \E c \in DOMAIN calls :
        /\ calls[c].ended = "error"
        /\ \E i \in Addressed(c) :
              /\ messages[i].isError = TRUE
              /\ messages[i].content = Msg.query

\* C24: the step that applies a done event sets isLoading to false on the
\* in-flight agent message and changes nothing else: every other field of that
\* message, every other message and the session id stay as they were.
DoneStep(c) == calls[c].ended = "none" /\ calls'[c].ended = "done"

C24_DoneChangesIsLoadingOnly ==
    [][\A c \in DOMAIN calls :
          DoneStep(c) =>
              /\ Len(messages') = Len(messages)
              /\ \A i \in DOMAIN messages :
                    IF i = calls[c].at
                    THEN messages'[i] = Put(messages[i], "isLoading", FALSE)
                    ELSE messages'[i] = messages[i]
              /\ sessionIdRef' = sessionIdRef]_vars

\* C27: the ids of the messages in the list are pairwise distinct, and a step
\* that applies a stream event changes no message but the in-flight agent
\* message of its turn.
UniqueIds == \A i, j \in DOMAIN messages : i # j => messages[i].id # messages[j].id

EventStep(c) == calls'[c].n = calls[c].n + 1

C27_IdsUnique ==
    /\ []UniqueIds
    /\ [][\A c \in DOMAIN calls :
             EventStep(c) =>
                 /\ Len(messages') = Len(messages)
                 /\ \A i \in DOMAIN messages :
                       i # calls[c].at => messages'[i] = messages[i]]_vars

\* C28: the step in which the read fails after events were applied removes
\* the in-flight agent message, keeps every other message in place, appends
\* one standalone error message and sets the loading flag to false.
Without(ms, at) == SubSeq(ms, 1, at - 1) \o SubSeq(ms, at + 1, Len(ms))

C28_LateFailureReplacesMessage ==
    [][\A c \in DOMAIN calls :
          (ThrownStep(c) /\ calls[c].n >= 1) =>
              /\ Len(messages') = Len(messages)
              /\ SubSeq(messages', 1, Len(messages) - 1) = Without(messages, calls[c].at)
              /\ StandaloneError(messages'[Len(messages')])
              /\ loading' = FALSE]_vars

\* C29: with at most one stream in flight, when the loading flag is false no
\* message in the list has isLoading = true.  The converse fails: after a
\* general_answer or guidance event no message is loading while the flag is
\* still true.
NoneLoading == \A i \in DOMAIN messages : ~IsLoadingMessage(messages[i])

C29_IdleMeansNoneLoading ==
    (Cardinality(OpenStreams) <= 1 /\ ~loading) => NoneLoading

C29_Witness ==
    /\ ~loading
    /\ NoneLoading
    /\ \E c \in DOMAIN calls :
          /\ calls[c].ended \in {"done", "error"}
          /\ "sql" \in calls[c].seen
          /\ NotLoadingMessage(messages[calls[c].at])

C29_ConverseFails ==
    /\ loading
    /\ NoneLoading
    /\ \E c \in DOMAIN calls :
          InFlight(c) /\ calls[c].seen \cap {"general_answer", "guidance"} # {}

\* C30: the message list is a sequence of turns, each a user message followed
\* by one agent message, one turn for every accepted call in submission order;
\* no call was accepted for a query that is empty after trimming.
TurnAt(c) ==
    /\ messages[2 * c - 1].isUser
    /\ messages[2 * c - 1].content = calls[c].query
    /\ ~messages[2 * c].isUser

C30_ListIsTurns ==
    /\ Len(messages) = 2 * Len(calls)
    /\ \A c \in DOMAIN calls : TurnAt(c) /\ TrimQuery(calls[c].query) # ""

\* C23: applied to any agent message of a reachable list, every progressive
\* event is idempotent, leaves a field whose member the event does not carry
\* at its previous value, and a data event stores its results in place of the
\* previous ones.
ProgressiveEvents ==
    {SqlEvent}
    \cup {DataEvent(r, d) : r \in {Undefined, "rows1", "rows2"}, d \in {Undefined, "di1"}}
    \cup {AnalysisEvent(a) : a \in Dom.analysis}
    \cup {VisualizationEvent(v, so, sq) : v \in Dom.visualization, so \in Dom.schema_overview, sq \in Dom.suggested_queries}
    \cup {InterpretationEvent(a, v, so, sq) : a \in Dom.analysis, v \in Dom.visualization, so \in Dom.schema_overview, sq \in Dom.suggested_queries}

\* the member of the event each field of the message is set from
Carried(type) ==
    CASE type = "sql" ->
             {<<"explanation", "sql_explanation">>, <<"sql", "sql_query">>,
              <<"query_id", "query_id">>}
      [] type = "data" -> {<<"results", "results">>, <<"display_info", "display_info">>}
      [] type = "analysis" -> {<<"explanation", "analysis_explanation">>}
      [] type = "visualization" ->
             {<<"visualization", "visualization">>, <<"schema_overview", "schemaOverview">>,
              <<"suggested_queries", "suggestedQueries">>}
      [] type = "interpretation" ->
             {<<"analysis", "analysis_explanation">>, <<"visualization", "visualization">>,
              <<"schema_overview", "schemaOverview">>,
              <<"suggested_queries", "suggestedQueries">>}

Idempotent(m, e) == Apply(Apply(m, e, "q1"), e, "q1") = Apply(m, e, "q1")

KeepsAbsent(m, e) ==
    \A p \in Carried(e.type) :
        ~Has(e, p[1]) => Get(Apply(m, e, "q1"), p[2]) = Get(m, p[2])

ReplacesResults(m, e) ==
    (e.type = "data" /\ Has(e, "results")) => Apply(m, e, "q1").results = e.results

C23_TransitionsIdempotentAndSparse ==
    \A i \in DOMAIN messages : \A e \in ProgressiveEvents :
        ~messages[i].isUser =>
            /\ Idempotent(messages[i], e)
            /\ KeepsAbsent(messages[i], e)
            /\ ReplacesResults(messages[i], e)

\* C25: when fetch rejects or the response is not ok, queryAgent has called
\* onEvent for nothing and has rejected, and nothing follows the rejection;
\* when the stream delivered an error event, queryAgent called onEvent for it
\* and returned without rejecting.
TransportFailure == failure \in {"fetch", "http"}

ServerError == delivered # <<>> /\ delivered[Len(delivered)] = "E"

C25_TransportFailureRejects ==
    /\ [](TransportFailure => (delivered = <<>> /\ tphase = "rejected"))
    /\ [](ServerError => (tphase = "returned" /\ failure = "none"))
    /\ [][tphase = "rejected" => (tphase' = "rejected" /\ delivered' = delivered)]_vars

C25_Witness ==
    /\ failure = "http"
    /\ tphase = "rejected"
    /\ delivered = <<>>
    /\ Len(frames) >= 1
    /\ frames[1] = "E"

\* C26: for bar, pie and line, when x_column is no key of the rows but
\* resolves to a column whose values are all distinct, the duplicate test is
\* false, and more than 5 such rows with no numeric aggregate field are not
\* charted.
C26_DuplicatesOnResolvedColumn ==
    (/\ Rendered
     /\ chart.visualization.present
     /\ chart.visualization.type \in AggregateCharts
     /\ Len(ChartedData) > 5
     /\ ~AggregateField(ChartedData[1])
     /\ chart.visualization.config.x_column # NoColumn
     /\ ~HasOwnProperty(ChartedData[1], chart.visualization.config.x_column)
     /\ ResolvedX # NoColumn
     /\ DistinctDown(ChartedData, ResolvedX))
        => /\ ~HasDuplicates(ChartedData, chart.visualization.config.x_column)
           /\ chart.output.kind # "chart"

\* C21: every request made for a message carries the database selected when
\* the message's query was sent: the /chat request and the placeholder take
\* the selection of that moment, and every /api/interpret and /api/feedback
\* request in flight carries the database stored in its message.
DatabaseOf(id) ==
    {messages[i].database : i \in {j \in DOMAIN messages :
                                      messages[j].id = id /\ Has(messages[j], "database")}}

SendStep == Len(calls') = Len(calls) + 1

C21_DatabaseThreaded ==
    /\ [][SendStep =>
             /\ calls'[Len(calls')].body.database = selectedDatabase
             /\ messages'[Len(messages')].database = selectedDatabase]_vars
    /\ [](\A p \in analysisPending : DatabaseOf(p.id) \subseteq {p.request.database})
    /\ [](feedback.mounted =>
             \A r \in feedback.pending : DatabaseOf(feedback.id) \subseteq {r.database})

\* C22: no feedback request is sent for a message once feedbackGiven is set,
\* and a step that closes the modal without a response having arrived sends
\* nothing.
Sent(fb) == IF fb.mounted THEN fb.sent ELSE 0

GivenIn(fb) == IF fb.mounted THEN fb.feedbackGiven ELSE Null

ModalShown(fb) == fb.mounted /\ fb.showModal

C22_NoFeedbackAfterGiven ==
    [][/\ Sent(feedback') > Sent(feedback) => GivenIn(feedback) = Null
       /\ (ModalShown(feedback) /\ ~ModalShown(feedback'))
             => Sent(feedback') = Sent(feedback)]_vars

====
